---- MODULE Spec2Model ----
(***************************************************************************)
(* A model of gwf's Sun Grid Engine backend (src/gwf/backends/sge.py):     *)
(* the tracker (target name -> job id), the status snapshot (job id ->     *)
(* Status), the persisted tracker file, and the operations of SGEBackend.  *)
(*                                                                         *)
(* Text that the code takes apart (qsub's stdout, a raw state code, a      *)
(* memory value) is a sequence of one-character strings; other text is a   *)
(* TLA+ string.  A Python dict is a function with a finite domain.         *)
(***************************************************************************)
EXTENDS Integers, Sequences, FiniteSets, TLC

VARIABLES alive, tracked, status, file, last

vars == <<alive, tracked, status, file, last>>

(***************************************************************************)
(* Bounds of the model.                                                    *)
(***************************************************************************)
\* job ids the scheduler can hand out: "1" .. MaxJob
MaxJob == 2
\* longest dependency list given to submit
MaxDeps == 2
\* most jobs in one qstat listing
MaxListed == 2

(***************************************************************************)
(* Dicts.                                                                  *)
(***************************************************************************)
EmptyDict == [x \in {} |-> x]

\* d[k] = v
DictSet(d, k, v) == [x \in (DOMAIN d) \cup {k} |-> IF x = k THEN v ELSE d[x]]

\* del d[k], for k a key of d
DictDel(d, k) == [x \in (DOMAIN d) \ {k} |-> d[x]]

(***************************************************************************)
(* Status values.                                                          *)
(***************************************************************************)
SUBMITTED == "SUBMITTED"
RUNNING == "RUNNING"
UNKNOWN == "UNKNOWN"
Status == {SUBMITTED, RUNNING, UNKNOWN}

(***************************************************************************)
(* Text.                                                                   *)
(***************************************************************************)
Digits == <<"0", "1", "2", "3", "4", "5", "6", "7", "8", "9">>

IsDigit(c) == \E i \in 1..Len(Digits) : Digits[i] = c

DigitVal(c) == (CHOOSE i \in 1..Len(Digits) : Digits[i] = c) - 1

Whitespace == {" ", "\n", "\t"}

\* str.lstrip()
RECURSIVE LStrip(_)
LStrip(s) == IF s # <<>> /\ Head(s) \in Whitespace THEN LStrip(Tail(s)) ELSE s

\* str.rstrip()
RECURSIVE RStrip(_)
RStrip(s) ==
    IF s # <<>> /\ s[Len(s)] \in Whitespace
    THEN RStrip(SubSeq(s, 1, Len(s) - 1))
    ELSE s

\* a strip() that leaves the white space at the end
StripLeftOnly(s) == LStrip(s)

\* str.strip()
Strip(s) == RStrip(LStrip(s))

\* sep.join(parts), parts a sequence of texts
RECURSIVE Join(_, _)
Join(sep, parts) ==
    IF parts = <<>> THEN <<>>
    ELSE IF Len(parts) = 1 THEN parts[1]
    ELSE parts[1] \o sep \o Join(sep, Tail(parts))

\* int(s) for s a non-empty text of digits
RECURSIVE ParseInt(_)
ParseInt(s) ==
    IF s = <<>> THEN 0
    ELSE 10 * ParseInt(SubSeq(s, 1, Len(s) - 1)) + DigitVal(s[Len(s)])

\* str(n) for n >= 0
RECURSIVE FormatInt(_)
FormatInt(n) ==
    IF n < 10 THEN <<Digits[n + 1]>>
    ELSE FormatInt(n \div 10) \o <<Digits[(n % 10) + 1]>>

\* re.sub(r'[^0-9]+', '', s)
OnlyDigits(s) == SelectSeq(s, IsDigit)

\* re.sub(r'[0-9]+', '', s)
NoDigits(s) == SelectSeq(s, LAMBDA c : ~IsDigit(c))

(***************************************************************************)
(* Targets.  An option value is an int (cores) or a text.                  *)
(***************************************************************************)
IntVal(n) == [isint |-> TRUE, n |-> n, s |-> <<>>]
StrVal(s) == [isint |-> FALSE, n |-> 0, s |-> s]

\* "{}".format(v)
Format(v) == IF v.isint THEN FormatInt(v.n) ELSE v.s

Walltime == StrVal(<<"0", "1", ":", "0", "0", ":", "0", "0">>)

\* the option defaults: cores, memory, walltime
TargetA ==
    [name |-> "A",
     options |-> << <<"cores", IntVal(1)>>,
                    <<"memory", StrVal(<<"1", "g">>)>>,
                    <<"walltime", Walltime>> >>,
     working_dir |-> "/work",
     spec |-> "echo a"]

\* memory given before cores
TargetB ==
    [name |-> "B",
     options |-> << <<"memory", StrVal(<<"8", "g">>)>>,
                    <<"cores", IntVal(4)>>,
                    <<"walltime", Walltime>> >>,
     working_dir |-> "/work",
     spec |-> "echo b"]

\* an option key that SGE_OPTIONS does not have
TargetC ==
    [name |-> "C",
     options |-> << <<"cores", IntVal(1)>>,
                    <<"nodes", IntVal(2)>> >>,
     working_dir |-> "/work",
     spec |-> "echo c"]

\* a third target that compiles: 10g over 3 cores, and a queue
TargetD ==
    [name |-> "D",
     options |-> << <<"cores", IntVal(3)>>,
                    <<"memory", StrVal(<<"1", "0", "g">>)>>,
                    <<"queue", StrVal(<<"s", "h", "o", "r", "t">>)>> >>,
     working_dir |-> "/work",
     spec |-> "echo d"]

Targets == {TargetA, TargetB, TargetC}

\* a workflow of three targets that all compile
DepTargets == {TargetA, TargetB, TargetD}

NameOrder == <<"A", "B", "C", "D">>

\* target.name as a text
NameText(name) == <<name>>

\* key in target.options
HasOption(options, key) == \E i \in 1..Len(options) : options[i][1] = key

\* target.options[key], for key in target.options
GetOption(options, key) ==
    options[CHOOSE i \in 1..Len(options) : options[i][1] = key][2]

(***************************************************************************)
(* Exceptions.  A result carries exc = NoExc when nothing was raised.      *)
(***************************************************************************)
NoExc == "none"

(***************************************************************************)
(* _compile_script.  A script is a sequence of lines; a line is a literal  *)
(* of the code and the text formatted into it.                             *)
(***************************************************************************)
SGE_OPTIONS ==
    [cores |-> "#$ -pe smp ",
     memory |-> "#$ -l h_vmem=",
     walltime |-> "#$ -l h_rt=",
     queue |-> "#$ -q ",
     account |-> "#$ -P "]

Line(lit, arg) == [lit |-> lit, arg |-> arg]

\* log_manager.stdout_path(target), log_manager.stderr_path(target)
StdoutPath(target) == <<".gwf/logs/", target.name, ".stdout">>
StderrPath(target) == <<".gwf/logs/", target.name, ".stderr">>

\* a memory branch that does not divide by the cores
MemoryUndivided(options, option_value) ==
    IF OnlyDigits(option_value.s) = <<>>
    THEN [exc |-> "ValueError", arg |-> "", value |-> option_value]
    ELSE [exc |-> NoExc, arg |-> "",
          value |-> StrVal(FormatInt(ParseInt(OnlyDigits(option_value.s)))
                           \o NoDigits(option_value.s))]

\* the memory branch of the option loop: total memory to per-core memory
MemoryPerCore(options, option_value) ==
    LET digits == OnlyDigits(option_value.s)
        unit == NoDigits(option_value.s)
    IN  IF digits = <<>>
        THEN [exc |-> "ValueError", arg |-> "", value |-> option_value]
        ELSE IF ~HasOption(options, "cores")
        THEN [exc |-> "KeyError", arg |-> "cores", value |-> option_value]
        ELSE IF GetOption(options, "cores").n = 0
        THEN [exc |-> "ZeroDivisionError", arg |-> "", value |-> option_value]
        ELSE [exc |-> NoExc, arg |-> "",
              value |-> StrVal(FormatInt(ParseInt(digits)
                                  \div GetOption(options, "cores").n) \o unit)]

\* an option loop that leaves out the options SGE_OPTIONS does not have
RECURSIVE CompileOptionsSkippingUnknown(_, _)
CompileOptionsSkippingUnknown(options, i) ==
    IF i > Len(options) THEN [exc |-> NoExc, arg |-> "", lines |-> <<>>]
    ELSE
        LET option_name == options[i][1]
            mem == IF option_name = "memory"
                   THEN MemoryPerCore(options, options[i][2])
                   ELSE [exc |-> NoExc, arg |-> "", value |-> options[i][2]]
            rest == CompileOptionsSkippingUnknown(options, i + 1)
        IN  IF mem.exc # NoExc
            THEN [exc |-> mem.exc, arg |-> mem.arg, lines |-> <<>>]
            ELSE IF rest.exc # NoExc THEN rest
            ELSE IF option_name \notin DOMAIN SGE_OPTIONS THEN rest
            ELSE [exc |-> NoExc, arg |-> "",
                  lines |-> <<Line(SGE_OPTIONS[option_name], Format(mem.value))>>
                            \o rest.lines]

\* the option loop, from option i on
RECURSIVE CompileOptions(_, _)
CompileOptions(options, i) ==
    IF i > Len(options) THEN [exc |-> NoExc, arg |-> "", lines |-> <<>>]
    ELSE
        LET option_name == options[i][1]
            mem == IF option_name = "memory"
                   THEN MemoryPerCore(options, options[i][2])
                   ELSE [exc |-> NoExc, arg |-> "", value |-> options[i][2]]
        IN  IF mem.exc # NoExc
            THEN [exc |-> mem.exc, arg |-> mem.arg, lines |-> <<>>]
            ELSE IF option_name \notin DOMAIN SGE_OPTIONS
            THEN [exc |-> "KeyError", arg |-> option_name, lines |-> <<>>]
            ELSE LET rest == CompileOptions(options, i + 1)
                 IN  IF rest.exc # NoExc THEN rest
                     ELSE [exc |-> NoExc, arg |-> "",
                           lines |-> <<Line(SGE_OPTIONS[option_name], Format(mem.value))>>
                                     \o rest.lines]

CompileScript(target) ==
    LET opts == CompileOptions(target.options, 1)
    IN  IF opts.exc # NoExc THEN opts
        ELSE [exc |-> NoExc, arg |-> "",
              lines |->
                  << Line("#!/bin/bash", <<>>),
                     Line("# Generated by: gwf", <<>>),
                     Line("#$ -N ", NameText(target.name)),
                     Line("#$ -V", <<>>),
                     Line("#$ -w v", <<>>),
                     Line("#$ -cwd", <<>>) >>
                  \o opts.lines
                  \o << Line("#$ -o ", StdoutPath(target)),
                        Line("#$ -e ", StderrPath(target)),
                        Line("", <<>>),
                        Line("cd ", <<target.working_dir>>),
                        Line("export GWF_JOBID=$SGE_JOBID", <<>>),
                        Line("export GWF_TARGET_NAME=", NameText(target.name)),
                        Line("set -e", <<>>),
                        Line("", <<>>),
                        Line(target.spec, <<>>) >>]

(***************************************************************************)
(* The scheduler's command line.  A call of an executable ends in one of   *)
(* three ways: the executable is not found, it exits non-zero, it exits 0. *)
(***************************************************************************)
RunMissing == [found |-> FALSE, returncode |-> 0, stdout |-> <<>>]
RunFailed(stdout) == [found |-> TRUE, returncode |-> 1, stdout |-> stdout]
RunOk(stdout) == [found |-> TRUE, returncode |-> 0, stdout |-> stdout]

\* a job id: the text of a number 1 .. MaxJob
JobIds == { FormatInt(n) : n \in 1..MaxJob }

\* raw state codes of a qstat listing
RawStates == { <<"q", "w">>, <<"r">>, <<"d", "r">> }

ListedJobs == [JB_job_number : JobIds, state : RawStates]

RECURSIVE SeqsUpTo(_, _)
SeqsUpTo(S, n) ==
    IF n = 0 THEN {<<>>}
    ELSE LET shorter == SeqsUpTo(S, n - 1)
         IN  shorter \cup { Append(s, x) : s \in shorter, x \in S }

\* listings of up to MaxListed jobs, each job listed once
Listings ==
    { js \in SeqsUpTo(ListedJobs, MaxListed) :
        \A i, j \in 1..Len(js) :
            i # j => js[i].JB_job_number # js[j].JB_job_number }

\* what qstat -f -xml can print: a listing of jobs, or text that is no XML
QstatDumps ==
    { [wellformed |-> TRUE, jobs |-> js] : js \in Listings }
    \cup { [wellformed |-> FALSE, jobs |-> <<>>] }

\* what qsub -terse can print for a job id: the id and a newline, with or
\* without white space before it
QsubStdouts(job_id) == { pre \o job_id \o <<"\n">> : pre \in {<<>>, <<" ">>} }

\* c in s
In(c, s) == \E i \in 1..Len(s) : s[i] = c

\* a classification that looks for the running markers first
JobStateRunningFirst(state) ==
    IF In("r", state) \/ In("t", state) \/ In("s", state) THEN RUNNING
    ELSE IF In("d", state) \/ In("E", state) THEN UNKNOWN
    ELSE SUBMITTED

\* the classification of one raw state code
JobState(state) ==
    IF In("d", state) \/ In("E", state) THEN UNKNOWN
    ELSE IF In("r", state) \/ In("t", state) \/ In("s", state) THEN RUNNING
    ELSE SUBMITTED

\* the loop over root.iter('job_list')
RECURSIVE ParseJobs(_, _)
ParseJobs(jobs, job_states) ==
    IF jobs = <<>> THEN job_states
    ELSE ParseJobs(Tail(jobs),
                   DictSet(job_states, Head(jobs).JB_job_number,
                           JobState(Head(jobs).state)))

ParseQstatOutput(stdout) ==
    IF ~stdout.wellformed
    THEN [exc |-> "ParseError", job_states |-> EmptyDict]
    ELSE [exc |-> NoExc, job_states |-> ParseJobs(stdout.jobs, EmptyDict)]

\* a process that was started: what ran, and how it ended
Call(exe, args, input, returncode) ==
    [exe |-> exe, args |-> args, input |-> input, returncode |-> returncode]

\* a _call_generic that does not look at the return code
CallGenericIgnoringExit(executable_name, args, input, run) ==
    IF ~run.found
    THEN [exc |-> "BackendError", arg |-> executable_name, stdout |-> <<>>,
          calls |-> <<>>]
    ELSE [exc |-> NoExc, arg |-> "", stdout |-> run.stdout,
          calls |-> <<Call(executable_name, args, input, run.returncode)>>]

\* _call_generic (with _find_exe) when the executable ends as `run` says:
\* the exception raised, the stdout returned, the processes started
CallGeneric(executable_name, args, input, run) ==
    IF ~run.found
    THEN [exc |-> "BackendError", arg |-> executable_name, stdout |-> <<>>,
          calls |-> <<>>]
    ELSE IF run.returncode # 0
    THEN [exc |-> "BackendError", arg |-> "stderr", stdout |-> <<>>,
          calls |-> <<Call(executable_name, args, input, run.returncode)>>]
    ELSE [exc |-> NoExc, arg |-> "", stdout |-> run.stdout,
          calls |-> <<Call(executable_name, args, input, run.returncode)>>]

\* _call_qstat
CallQstat(run) == CallGeneric("qstat", << <<"-f">>, <<"-xml">> >>, <<>>, run)

\* _call_qdel
CallQdel(job_id, run) == CallGeneric("qdel", <<job_id>>, <<>>, run)

\* the arguments _call_qsub builds
QsubArgs(dependencies) ==
    IF dependencies # <<>>
    THEN << <<"-terse">>, <<"-hold_jid">>, Join(<<",">>, dependencies) >>
    ELSE << <<"-terse">> >>

\* _call_qsub
CallQsub(script, dependencies, run) ==
    CallGeneric("qsub", QsubArgs(dependencies), script, run)

(***************************************************************************)
(* PersistableDict: the tracker's file.                                    *)
(***************************************************************************)
MissingFile == [kind |-> "missing", items |-> <<>>]
EmptyFile == [kind |-> "empty", items |-> <<>>]

\* json.dump(self.data): the items of the dict
RECURSIVE DumpItems(_, _)
DumpItems(d, i) ==
    IF i > Len(NameOrder) THEN <<>>
    ELSE (IF NameOrder[i] \in DOMAIN d
          THEN << <<NameOrder[i], d[NameOrder[i]]>> >>
          ELSE <<>>)
         \o DumpItems(d, i + 1)

Persist(d) == [kind |-> "json", items |-> DumpItems(d, 1)]

RECURSIVE LoadItems(_, _)
LoadItems(items, d) ==
    IF items = <<>> THEN d
    ELSE LoadItems(Tail(items), DictSet(d, Head(items)[1], Head(items)[2]))

\* PersistableDict(path): a file that is missing or holds no JSON gives {}
Load(f) == IF f.kind = "json" THEN LoadItems(f.items, EmptyDict) ELSE EmptyDict

(***************************************************************************)
(* The tracker and the snapshot: the private methods of SGEBackend.        *)
(***************************************************************************)
\* a get_job_id that answers an untracked target with an empty job id
GetJobIdOrEmpty(tr, name) ==
    IF name \in DOMAIN tr
    THEN [exc |-> NoExc, job_id |-> tr[name]]
    ELSE [exc |-> NoExc, job_id |-> <<>>]

\* get_job_id: self._tracked[target.name]
GetJobId(tr, name) ==
    IF name \in DOMAIN tr
    THEN [exc |-> NoExc, job_id |-> tr[name]]
    ELSE [exc |-> "KeyError", job_id |-> <<>>]

\* a _set_job_id that keeps the job id a target already has (setdefault)
SetJobIdKeepingFirst(tr, name, job_id) ==
    IF name \in DOMAIN tr THEN tr ELSE DictSet(tr, name, job_id)

\* _set_job_id
SetJobId(tr, name, job_id) == DictSet(tr, name, job_id)

\* _get_status
GetStatus(tr, st, name) ==
    LET got == GetJobId(tr, name)
    IN  IF got.exc # NoExc THEN [exc |-> got.exc, value |-> UNKNOWN]
        ELSE IF got.job_id \notin DOMAIN st
        THEN [exc |-> "KeyError", value |-> UNKNOWN]
        ELSE [exc |-> NoExc, value |-> st[got.job_id]]

\* a _set_status that updates only a job id the snapshot already has
SetStatusIfListed(tr, st, name, value) ==
    IF GetJobId(tr, name).job_id \in DOMAIN st
    THEN DictSet(st, GetJobId(tr, name).job_id, value)
    ELSE st

\* _set_status, for a tracked target
SetStatus(tr, st, name, value) == DictSet(st, GetJobId(tr, name).job_id, value)

\* an _add_job that records the job id and no initial status
AddJobWithoutStatus(tr, st, name, job_id) ==
    [tracked |-> SetJobId(tr, name, job_id), status |-> st]

\* _add_job
AddJob(tr, st, name, job_id) ==
    LET tr2 == SetJobId(tr, name, job_id)
    IN  [tracked |-> tr2, status |-> SetStatus(tr2, st, name, SUBMITTED)]

\* a _collect_dependency_ids that leaves out the untracked dependencies
RECURSIVE CollectTrackedDependencyIds(_, _)
CollectTrackedDependencyIds(tr, dependencies) ==
    IF dependencies = <<>> THEN [exc |-> NoExc, arg |-> "", ids |-> <<>>]
    ELSE LET rest == CollectTrackedDependencyIds(tr, Tail(dependencies))
         IN  IF Head(dependencies).name \notin DOMAIN tr THEN rest
             ELSE [exc |-> NoExc, arg |-> "",
                   ids |-> <<tr[Head(dependencies).name]>> \o rest.ids]

\* a _collect_dependency_ids that puts the job ids in the opposite order
RECURSIVE CollectDependencyIdsReversed(_, _)
CollectDependencyIdsReversed(tr, dependencies) ==
    IF dependencies = <<>> THEN [exc |-> NoExc, arg |-> "", ids |-> <<>>]
    ELSE IF Head(dependencies).name \notin DOMAIN tr
    THEN [exc |-> "UnknownDependencyError", arg |-> Head(dependencies).name,
          ids |-> <<>>]
    ELSE LET rest == CollectDependencyIdsReversed(tr, Tail(dependencies))
         IN  IF rest.exc # NoExc THEN rest
             ELSE [exc |-> NoExc, arg |-> "",
                   ids |-> rest.ids \o <<tr[Head(dependencies).name]>>]

\* _collect_dependency_ids: the job ids of the dependencies, in their order
RECURSIVE CollectDependencyIds(_, _)
CollectDependencyIds(tr, dependencies) ==
    IF dependencies = <<>> THEN [exc |-> NoExc, arg |-> "", ids |-> <<>>]
    ELSE IF Head(dependencies).name \notin DOMAIN tr
    THEN [exc |-> "UnknownDependencyError", arg |-> Head(dependencies).name,
          ids |-> <<>>]
    ELSE LET rest == CollectDependencyIds(tr, Tail(dependencies))
         IN  IF rest.exc # NoExc THEN rest
             ELSE [exc |-> NoExc, arg |-> "",
                   ids |-> <<tr[Head(dependencies).name]>> \o rest.ids]

\* a status(target) without the except clause
StatusOfUncaught(tr, st, name) == GetStatus(tr, st, name)

\* status(target): a KeyError of _get_status becomes UNKNOWN
StatusOf(tr, st, name) ==
    LET got == GetStatus(tr, st, name)
    IN  IF got.exc = "KeyError"
        THEN [exc |-> NoExc, value |-> UNKNOWN]
        ELSE got

\* a forget_job(target) that empties the snapshot
ForgetJobClearingSnapshot(tr, st, name) ==
    IF name \notin DOMAIN tr \/ tr[name] \notin DOMAIN st
    THEN [exc |-> "KeyError", arg |-> name, tracked |-> tr, status |-> st]
    ELSE [exc |-> NoExc, arg |-> "", tracked |-> DictDel(tr, name),
          status |-> EmptyDict]

\* forget_job(target): the two deletions, in the code's order
ForgetJob(tr, st, name) ==
    LET got == GetJobId(tr, name)
    IN  IF got.exc # NoExc
        THEN [exc |-> "KeyError", arg |-> name, tracked |-> tr, status |-> st]
        ELSE IF got.job_id \notin DOMAIN st
        THEN [exc |-> "KeyError", arg |-> name, tracked |-> tr, status |-> st]
        ELSE [exc |-> NoExc, arg |-> "",
              tracked |-> DictDel(tr, name),
              status |-> DictDel(st, got.job_id)]

(***************************************************************************)
(* The state.                                                              *)
(*   alive    a backend instance exists (its construction succeeded)       *)
(*   tracked  self._tracked                                                *)
(*   status   self._status                                                 *)
(*   file     .gwf/sge-backend-tracked.json                                *)
(*   last     the last operation: its arguments, the exception it raised   *)
(*            (NoExc if none), its return value, the processes it started  *)
(***************************************************************************)
Done(op, name, deps, exc, arg, ret, calls, stdout) ==
    [op |-> op, target |-> name, deps |-> deps, exc |-> exc, arg |-> arg,
     ret |-> ret, calls |-> calls, stdout |-> stdout]

\* the names of a sequence of targets
Names(targets) == [i \in 1..Len(targets) |-> targets[i].name]

\* how a run of qstat can end
QstatRuns ==
    {RunMissing, RunFailed([wellformed |-> FALSE, jobs |-> <<>>])}
    \cup { RunOk(dump) : dump \in QstatDumps }

\* __init__: the snapshot from qstat, then the tracker from its file
Constructed(f, run) ==
    LET called == CallQstat(run)
        parsed == IF called.exc # NoExc
                  THEN [exc |-> called.exc, job_states |-> EmptyDict]
                  ELSE ParseQstatOutput(called.stdout)
    IN  [alive |-> parsed.exc = NoExc,
         status |-> parsed.job_states,
         tracked |-> IF parsed.exc = NoExc THEN Load(f) ELSE EmptyDict,
         last |-> Done("__init__", "", <<>>, parsed.exc, "", "None",
                       called.calls, <<>>)]

Init ==
    \E f \in {MissingFile, EmptyFile}, run \in QstatRuns :
        LET c == Constructed(f, run)
        IN  /\ c.alive
            /\ alive = c.alive
            /\ tracked = c.tracked
            /\ status = c.status
            /\ file = f
            /\ last = c.last

\* A new process constructs a backend.  It starts when the process before it
\* has shut down: that one closed its backend, or never got one.
Construct ==
    /\ ~alive \/ last.op = "close"
    /\ \E run \in QstatRuns :
           LET c == Constructed(file, run)
           IN  /\ alive' = c.alive
               /\ tracked' = c.tracked
               /\ status' = c.status
               /\ last' = c.last
               /\ UNCHANGED file

\* a status(target) over a tracker that makes an entry for every name it is
\* asked for (a defaultdict)
StatusCallTracking(target) ==
    /\ alive
    /\ LET r == StatusOf(tracked, status, target.name)
       IN  last' = Done("status", target.name, <<>>, r.exc, "", r.value, <<>>, <<>>)
    /\ tracked' = IF target.name \in DOMAIN tracked THEN tracked
                  ELSE DictSet(tracked, target.name, <<>>)
    /\ UNCHANGED <<alive, status, file>>

\* a status(target) that asks qstat again and rebuilds the snapshot
StatusCallRefreshing(target) ==
    /\ alive
    /\ \E dump \in { d \in QstatDumps : d.wellformed } :
           LET called == CallQstat(RunOk(dump))
               st == ParseQstatOutput(called.stdout).job_states
               r == StatusOf(tracked, st, target.name)
           IN  /\ status' = st
               /\ last' = Done("status", target.name, <<>>, r.exc, "", r.value,
                               called.calls, <<>>)
    /\ UNCHANGED <<alive, tracked, file>>

\* status(target)
StatusCall(target) ==
    /\ alive
    /\ LET r == StatusOf(tracked, status, target.name)
       IN  last' = Done("status", target.name, <<>>, r.exc, "", r.value, <<>>, <<>>)
    /\ UNCHANGED <<alive, tracked, status, file>>

\* the values of a dict
Values(d) == { d[k] : k \in DOMAIN d }

\* The job ids qsub can return: a job id is unique in the scheduler, so it
\* is none that the snapshot, the tracker or the tracker's file holds.
FreshIds == JobIds \ (DOMAIN status \cup Values(tracked) \cup Values(Load(file)))

\* how a run of qsub can end
QsubRuns ==
    {RunMissing, RunFailed(<<>>)}
    \cup { RunOk(stdout) : stdout \in UNION { QsubStdouts(id) : id \in FreshIds } }

\* how a run of qdel can end
QdelRuns == {RunMissing, RunFailed(<<>>), RunOk(<<>>)}

\* the script of each target
Scripts == [t \in Targets \cup DepTargets |-> CompileScript(t)]

\* submit(target, dependencies), script being what _compile_script(target)
\* gives; `shown` is what last.target shows of the target
SubmitWith(target, dependencies, script, shown) ==
    /\ alive
    /\ LET deps == CollectDependencyIds(tracked, dependencies)
           raise(exc, arg, calls) ==
               /\ last' = Done("submit", shown, Names(dependencies),
                               exc, arg, "None", calls, <<>>)
               /\ UNCHANGED <<tracked, status>>
       IN  IF script.exc # NoExc THEN raise(script.exc, script.arg, <<>>)
           ELSE IF deps.exc # NoExc THEN raise(deps.exc, deps.arg, <<>>)
           ELSE \E run \in QsubRuns :
               LET called == CallQsub(script.lines, deps.ids, run)
                   job_id == Strip(called.stdout)
                   added == AddJob(tracked, status, target.name, job_id)
               IN  IF called.exc # NoExc
                   THEN raise(called.exc, called.arg, called.calls)
                   ELSE /\ tracked' = added.tracked
                        /\ status' = added.status
                        /\ last' = Done("submit", shown, Names(dependencies),
                                        NoExc, "", "None", called.calls,
                                        called.stdout)
    /\ UNCHANGED <<alive, file>>

\* submit(target, dependencies)
Submit(target, dependencies) ==
    SubmitWith(target, dependencies, Scripts[target], target.name)

\* a cancel(target) that forgets the job in a finally clause
CancelForgetAlways(target) ==
    /\ alive
    /\ LET got == GetJobId(tracked, target.name)
           forgot == ForgetJob(tracked, status, target.name)
       IN  IF got.exc # NoExc
           THEN /\ last' = Done("cancel", target.name, <<>>, "UnknownTargetError",
                                target.name, "None", <<>>, <<>>)
                /\ UNCHANGED <<tracked, status>>
           ELSE \E run \in QdelRuns :
               LET called == CallQdel(got.job_id, run)
               IN  /\ tracked' = forgot.tracked
                   /\ status' = forgot.status
                   /\ last' = Done("cancel", target.name, <<>>,
                                   IF called.exc # NoExc THEN "UnknownTargetError"
                                   ELSE forgot.exc,
                                   target.name, "None", called.calls, <<>>)
    /\ UNCHANGED <<alive, file>>

\* cancel(target)
Cancel(target) ==
    /\ alive
    /\ LET got == GetJobId(tracked, target.name)
           raise(calls) ==
               /\ last' = Done("cancel", target.name, <<>>, "UnknownTargetError",
                               target.name, "None", calls, <<>>)
               /\ UNCHANGED <<tracked, status>>
       IN  IF got.exc # NoExc THEN raise(<<>>)
           ELSE \E run \in QdelRuns :
               LET called == CallQdel(got.job_id, run)
                   forgot == ForgetJob(tracked, status, target.name)
               IN  IF called.exc # NoExc THEN raise(called.calls)
                   ELSE /\ tracked' = forgot.tracked
                        /\ status' = forgot.status
                        /\ last' = Done("cancel", target.name, <<>>, forgot.exc,
                                        forgot.arg, "None", called.calls, <<>>)
    /\ UNCHANGED <<alive, file>>

\* forget_job(target), called by the workflow engine itself
ForgetJobCall(target) ==
    /\ alive
    /\ LET forgot == ForgetJob(tracked, status, target.name)
       IN  /\ tracked' = forgot.tracked
           /\ status' = forgot.status
           /\ last' = Done("forget_job", target.name, <<>>, forgot.exc,
                           forgot.arg, "None", <<>>, <<>>)
    /\ UNCHANGED <<alive, file>>

\* a close() that does not write the file
CloseWithoutPersist ==
    /\ alive
    /\ last' = Done("close", "", <<>>, NoExc, "", "None", <<>>, <<>>)
    /\ UNCHANGED <<alive, tracked, status, file>>

\* close()
Close ==
    /\ alive
    /\ file' = Persist(tracked)
    /\ last' = Done("close", "", <<>>, NoExc, "", "None", <<>>, <<>>)
    /\ UNCHANGED <<alive, tracked, status>>

\* the dependencies of a target are distinct targets, none the target itself
\* (the workflow graph has no cycles)
DependencyLists ==
    [t \in Targets |->
        { ds \in SeqsUpTo(Targets \ {t}, MaxDeps) :
            \A i, j \in 1..Len(ds) : i # j => ds[i] # ds[j] }]

Next ==
    \/ Construct
    \/ \E target \in Targets : StatusCall(target)
    \/ \E target \in Targets : \E dependencies \in DependencyLists[target] :
           Submit(target, dependencies)
    \/ \E target \in Targets : Cancel(target)
    \/ \E target \in Targets : ForgetJobCall(target)
    \/ Close

Spec == Init /\ [][Next]_vars

\* the dependency lists in the workflow of DepTargets
DepDependencyLists ==
    [t \in DepTargets |->
        { ds \in SeqsUpTo(DepTargets \ {t}, MaxDeps) :
            \A i, j \in 1..Len(ds) : i # j => ds[i] # ds[j] }]

\* a backend constructed when qstat lists no job and no tracker file exists
InitDeps ==
    LET c == Constructed(MissingFile,
                         RunOk([wellformed |-> TRUE, jobs |-> <<>>]))
    IN  /\ alive = c.alive
        /\ tracked = c.tracked
        /\ status = c.status
        /\ file = MissingFile
        /\ last = c.last

\* the operations of that backend on the workflow of DepTargets
NextDeps ==
    \/ \E target \in DepTargets : \E dependencies \in DepDependencyLists[target] :
           Submit(target, dependencies)
    \/ \E target \in DepTargets : Cancel(target)
    \/ \E target \in DepTargets : ForgetJobCall(target)

SpecDeps == InitDeps /\ [][NextDeps]_vars

(***************************************************************************)
(* _parse_qstat_output on its own: a dump is drawn, then parsed.           *)
(***************************************************************************)
\* state codes that qstat prints: pending, on hold, running, transferring,
\* suspended, restarted, in deletion, in error
StateCodes ==
    { <<"q", "w">>, <<"h", "q", "w">>, <<"r">>, <<"t">>, <<"s">>,
      <<"R", "r">>, <<"d", "r">>, <<"d", "t">>, <<"E", "q", "w">> }

\* listings of up to MaxListed jobs; a job id may be listed more than once
\* (a job array has one job_list element per task)
ParseDumps ==
    { [wellformed |-> TRUE, jobs |-> js] :
        js \in SeqsUpTo([JB_job_number : JobIds, state : StateCodes], MaxListed) }
    \cup { [wellformed |-> FALSE, jobs |-> <<>>] }

\* no backend yet; last.stdout holds what qstat printed
InitParse ==
    \E dump \in ParseDumps :
        /\ alive = FALSE
        /\ tracked = EmptyDict
        /\ status = EmptyDict
        /\ file = MissingFile
        /\ last = Done("qstat", "", <<>>, NoExc, "", "None", <<>>, dump)

\* _parse_qstat_output(stdout): status holds the job_states it returns
Parse ==
    /\ last.op = "qstat"
    /\ LET parsed == ParseQstatOutput(last.stdout)
       IN  /\ status' = parsed.job_states
           /\ last' = Done("_parse_qstat_output", "", <<>>, parsed.exc, "",
                           "None", <<>>, last.stdout)
    /\ UNCHANGED <<alive, tracked, file>>

SpecParse == InitParse /\ [][Parse]_vars

(***************************************************************************)
(* _compile_script on its own: the workflow hands a target to a backend    *)
(* that tracks nothing, which compiles it or is asked to submit it.        *)
(***************************************************************************)
MaxCores == 4

MaxMemLen == 3

\* the characters of a memory value
MemoryChars == {"0", "1", "5", "8", "g"}

\* memory values: "8g", "10g", and "g", "1g5", "g8", "18", ...
MemoryTexts == SeqsUpTo(MemoryChars, MaxMemLen) \ {<<>>}

\* the orders of the options; "nodes" is no key of SGE_OPTIONS
OptionOrders ==
    { <<"cores", "memory">>,
      <<"memory", "cores">>,
      <<"cores", "memory", "nodes">>,
      <<"nodes", "cores", "memory">> }

CompileTargets ==
    { [name |-> "A",
       options |-> [i \in 1..Len(order) |->
                       <<order[i],
                         IF order[i] = "cores" THEN IntVal(cores)
                         ELSE IF order[i] = "memory" THEN StrVal(memory)
                         ELSE IntVal(2)>>],
       working_dir |-> "/work",
       spec |-> "echo a"] :
        order \in OptionOrders, cores \in 1..MaxCores, memory \in MemoryTexts }

\* a backend constructed when qstat lists no job and no tracker file
\* exists; last.target is the target the workflow hands to it
InitCompile ==
    \E target \in CompileTargets :
        LET c == Constructed(MissingFile,
                             RunOk([wellformed |-> TRUE, jobs |-> <<>>]))
        IN  /\ alive = c.alive
            /\ tracked = c.tracked
            /\ status = c.status
            /\ file = MissingFile
            /\ last = Done("target", target, <<>>, NoExc, "", "None", <<>>, <<>>)

\* _compile_script(target): last.ret holds the lines of the script
Compile ==
    /\ last.op = "target"
    /\ LET script == CompileScript(last.target)
       IN  last' = Done("_compile_script", last.target, <<>>, script.exc,
                        script.arg, script.lines, <<>>, <<>>)
    /\ UNCHANGED <<alive, tracked, status, file>>

\* submit(target, [])
SubmitDrawn ==
    /\ last.op = "target"
    /\ SubmitWith(last.target, <<>>, CompileScript(last.target), last.target)

NextCompile == Compile \/ SubmitDrawn

SpecCompile == InitCompile /\ [][NextCompile]_vars

(***************************************************************************)
(* Properties.  `last` describes the step that led to the state, so a      *)
(* property of an operation reads last' (what it did) and the unprimed     *)
(* variables (the state it was called in).                                 *)
(***************************************************************************)
\* the target of a name
TargetOf(name) == CHOOSE t \in Targets : t.name = name

\* the step did not touch the tracker and the snapshot
Untouched == tracked' = tracked /\ status' = status

\* the untracked ones among a sequence of names
UntrackedAt(names, tr) == { i \in 1..Len(names) : names[i] \notin DOMAIN tr }

\* C1: status(target) never raises and returns a Status; it returns UNKNOWN
\* when the target is untracked and when its job id is no key of the snapshot.
C1_StatusTotal ==
    last.op = "status" =>
        /\ last.exc = NoExc
        /\ last.ret \in Status
        /\ last.target \notin DOMAIN tracked => last.ret = UNKNOWN
        /\ (last.target \in DOMAIN tracked /\ tracked[last.target] \notin DOMAIN status)
               => last.ret = UNKNOWN
        /\ (last.target \in DOMAIN tracked /\ tracked[last.target] \in DOMAIN status)
               => last.ret = status[tracked[last.target]]

\* status was asked for a tracked target whose job id the snapshot lacks
C1_Witness ==
    /\ last.op = "status"
    /\ last.target \in DOMAIN tracked
    /\ tracked[last.target] \notin DOMAIN status
    /\ last.ret = UNKNOWN

\* C2 as claimed: every submit with an untracked dependency fails with
\* UnknownDependencyError naming an untracked dependency, starts no process
\* and leaves tracker and snapshot as they were.
C2_Original ==
    [][(last'.op = "submit" /\ UntrackedAt(last'.deps, tracked) # {}) =>
           /\ last'.exc = "UnknownDependencyError"
           /\ \E i \in UntrackedAt(last'.deps, tracked) : last'.arg = last'.deps[i]
           /\ last'.calls = <<>>
           /\ Untouched]_vars

\* C2 as amended: a submit with an untracked dependency starts no process,
\* fails, and leaves tracker and snapshot as they were; when the script of the
\* target compiles, it fails with UnknownDependencyError naming the first
\* untracked dependency, otherwise with the error of the compilation.
C2_UnknownDependency ==
    [][(last'.op = "submit" /\ UntrackedAt(last'.deps, tracked) # {}) =>
           LET first == CHOOSE i \in UntrackedAt(last'.deps, tracked) :
                            \A j \in UntrackedAt(last'.deps, tracked) : i <= j
               script == CompileScript(TargetOf(last'.target))
           IN  /\ last'.exc # NoExc
               /\ last'.calls = <<>>
               /\ Untouched
               /\ script.exc = NoExc =>
                      /\ last'.exc = "UnknownDependencyError"
                      /\ last'.arg = last'.deps[first]
               /\ script.exc # NoExc =>
                      /\ last'.exc = script.exc
                      /\ last'.arg = script.arg]_vars

\* a submit failed on its second dependency, the first being tracked
C2_Witness ==
    /\ last.op = "submit"
    /\ last.exc = "UnknownDependencyError"
    /\ Len(last.deps) = 2
    /\ last.deps[1] \in DOMAIN tracked
    /\ last.deps[2] \notin DOMAIN tracked
    /\ last.arg = last.deps[2]

\* C3: a submit whose compilation is rejected, that has an untracked
\* dependency, that finds no qsub or whose qsub exits non-zero ends in an
\* error; a submit that ends in an error leaves tracker and snapshot as they
\* were.
C3_SubmitAtomic ==
    [][last'.op = "submit" =>
           LET failing ==
                   \/ CompileScript(TargetOf(last'.target)).exc # NoExc
                   \/ UntrackedAt(last'.deps, tracked) # {}
                   \/ last'.calls = <<>>
                   \/ \E i \in 1..Len(last'.calls) : last'.calls[i].returncode # 0
           IN  /\ failing => last'.exc # NoExc
               /\ last'.exc # NoExc => Untouched]_vars

\* a submit failed because qsub exited non-zero
C3_Witness ==
    /\ last.op = "submit"
    /\ last.exc = "BackendError"
    /\ Len(last.calls) = 1
    /\ last.calls[1].exe = "qsub"
    /\ last.calls[1].returncode # 0
    /\ last.target \notin DOMAIN tracked

\* C4: a successful submit starts one process, qsub, and changes the tracker
\* in one place: the target's entry is the stdout of qsub without the white
\* space around it, every other entry is as before.
C4_SubmitSuccess ==
    [][(last'.op = "submit" /\ last'.exc = NoExc) =>
           LET name == last'.target
               out == last'.stdout
               body == { i \in 1..Len(out) : out[i] \notin Whitespace }
           IN  /\ Len(last'.calls) = 1
               /\ last'.calls[1].exe = "qsub"
               /\ DOMAIN tracked' = DOMAIN tracked \cup {name}
               /\ \A n \in DOMAIN tracked \ {name} : tracked'[n] = tracked[n]
               /\ body # {}
               /\ tracked'[name] =
                      SubSeq(out, CHOOSE i \in body : \A j \in body : i <= j,
                                  CHOOSE i \in body : \A j \in body : j <= i)]_vars

\* a submit succeeded while another target was tracked, and qsub's stdout had
\* white space on both sides of the job id
C4_Witness ==
    /\ last.op = "submit"
    /\ last.exc = NoExc
    /\ last.stdout[1] \in Whitespace
    /\ last.stdout[Len(last.stdout)] \in Whitespace
    /\ DOMAIN tracked \ {last.target} # {}

C6_CancelUntracked ==
    [][(last'.op = "cancel" /\ last'.target \notin DOMAIN tracked) =>
           /\ last'.exc = "UnknownTargetError"
           /\ last'.arg = last'.target
           /\ last'.calls = <<>>
           /\ Untouched]_vars

\* cancel failed for an untracked target while another target was tracked
C6_Witness ==
    /\ last.op = "cancel"
    /\ last.target \notin DOMAIN tracked
    /\ last.exc = "UnknownTargetError"
    /\ DOMAIN tracked # {}

\* the qdel of the cancel did not succeed: not found, or a non-zero exit
QdelFailed(calls) == calls = <<>> \/ calls[1].returncode # 0

\* C7: cancel of a tracked target whose qdel is not found or exits non-zero
\* fails with UnknownTargetError and leaves tracker and snapshot as they were.
C7_CancelFailedKeeps ==
    [][(last'.op = "cancel" /\ last'.target \in DOMAIN tracked
            /\ QdelFailed(last'.calls)) =>
           /\ last'.exc = "UnknownTargetError"
           /\ Untouched
           /\ GetJobId(tracked', last'.target) = GetJobId(tracked, last'.target)
           /\ StatusOf(tracked', status', last'.target)
                  = StatusOf(tracked, status, last'.target)]_vars

\* cancel of a tracked target failed because qdel exited non-zero
C7_Witness ==
    /\ last.op = "cancel"
    /\ last.target \in DOMAIN tracked
    /\ tracked[last.target] \in DOMAIN status
    /\ Len(last.calls) = 1
    /\ last.calls[1].exe = "qdel"
    /\ last.calls[1].returncode # 0
    /\ last.exc = "UnknownTargetError"

\* C8 as claimed: cancel of a tracked target whose qdel succeeds returns
\* without error, and the target is forgotten: no tracker entry, no snapshot
\* entry for its job id, status(target) UNKNOWN.
C8_CancelForgets ==
    [][(last'.op = "cancel" /\ last'.target \in DOMAIN tracked
            /\ ~QdelFailed(last'.calls)) =>
           /\ last'.exc = NoExc
           /\ last'.target \notin DOMAIN tracked'
           /\ tracked[last'.target] \notin DOMAIN status'
           /\ StatusOf(tracked', status', last'.target).value = UNKNOWN]_vars

\* C9 as claimed: forget_job of a tracked target raises nothing, starts no
\* process and removes the target from the tracker and its job id from the
\* snapshot; forget_job of an untracked target fails and changes nothing.
C9_ForgetUnconditional ==
    [][last'.op = "forget_job" =>
           /\ last'.calls = <<>>
           /\ last'.target \in DOMAIN tracked =>
                  /\ last'.exc = NoExc
                  /\ last'.target \notin DOMAIN tracked'
                  /\ tracked[last'.target] \notin DOMAIN status'
           /\ last'.target \notin DOMAIN tracked =>
                  /\ last'.exc # NoExc
                  /\ Untouched]_vars

\* C10: a backend constructed after close() has the tracker of the closed
\* backend; a backend constructed over a missing or empty file has an empty
\* tracker.
C10_RoundTrip ==
    /\ []((last.op = "__init__" /\ last.exc = NoExc /\ file.kind # "json")
              => (alive /\ tracked = EmptyDict))
    /\ [][(last.op = "close" /\ last'.op = "__init__" /\ last'.exc = NoExc)
              => (alive' /\ tracked' = tracked)]_vars

\* a backend was constructed over a file that holds two targets
C10_Witness ==
    /\ last.op = "__init__"
    /\ last.exc = NoExc
    /\ Cardinality(DOMAIN tracked) = 2
    /\ tracked = Load(file)

\* C11: the tracker starts empty; a step gives a target a tracker entry (or
\* another job id) only if it is a successful submit of that target, or the
\* construction of a backend, which loads the entry from the file; and the
\* file is written only by close(), with the tracker of that moment.  So every
\* entry comes from a successful submit of this backend or of an earlier one.
C11_TrackerOnlyFromSubmit ==
    /\ tracked = EmptyDict
    /\ [][\A n \in DOMAIN tracked' :
              (n \notin DOMAIN tracked \/ tracked'[n] # tracked[n]) =>
                  \/ /\ last'.op = "submit"
                     /\ last'.exc = NoExc
                     /\ last'.target = n
                  \/ /\ last'.op = "__init__"
                     /\ n \in DOMAIN Load(file)
                     /\ tracked'[n] = Load(file)[n]]_vars
    /\ [][file' # file => (last'.op = "close" /\ Load(file') = tracked)]_vars

\* a cancel succeeded and left the entry of another target in the tracker
C11_Witness ==
    /\ last.op = "cancel"
    /\ last.exc = NoExc
    /\ DOMAIN tracked # {}

\* the reported status of every target
Reported(tr, st) == [t \in Targets |-> StatusOf(tr, st, t.name).value]

\* C12: qstat runs once, in the construction of the backend, and in no other
\* operation; status() starts no process and changes neither tracker nor
\* snapshot; the reported status of a target changes only in a submit, a
\* cancel or a forget_job (or with a new backend).
C12_SnapshotBuiltOnce ==
    /\ (last.op = "__init__" /\ Len(last.calls) = 1 /\ last.calls[1].exe = "qstat")
    /\ [][/\ \A i \in 1..Len(last'.calls) :
                 last'.calls[i].exe = "qstat" => last'.op = "__init__"
          /\ (last'.op = "__init__" /\ last'.exc = NoExc) =>
                 (Len(last'.calls) = 1 /\ last'.calls[1].exe = "qstat")
          /\ last'.op = "status" => (last'.calls = <<>> /\ Untouched)
          /\ Reported(tracked', status') # Reported(tracked, status) =>
                 last'.op \in {"__init__", "submit", "cancel", "forget_job"}]_vars

\* status answered RUNNING from the snapshot of the construction
C12_Witness ==
    /\ last.op = "status"
    /\ last.ret = RUNNING
    /\ last.calls = <<>>

\* C18: a cancel of a target, successful or not, leaves the tracker entry of
\* every other target as it was and, for every other target with another job
\* id, its snapshot entry and its reported status; it starts at most one
\* process, qdel with the job id of the cancelled target.
C18_CancelPerTarget ==
    [][last'.op = "cancel" =>
           LET a == last'.target
               others == { t.name : t \in Targets } \ {a}
               differs(b) == a \in DOMAIN tracked /\ b \in DOMAIN tracked
                                 => tracked[b] # tracked[a]
           IN  /\ \A b \in others :
                      /\ (b \in DOMAIN tracked') = (b \in DOMAIN tracked)
                      /\ b \in DOMAIN tracked => tracked'[b] = tracked[b]
                      /\ (b \in DOMAIN tracked /\ differs(b)) =>
                             /\ (tracked[b] \in DOMAIN status')
                                    = (tracked[b] \in DOMAIN status)
                             /\ tracked[b] \in DOMAIN status =>
                                    status'[tracked[b]] = status[tracked[b]]
                      /\ differs(b) => StatusOf(tracked', status', b)
                                           = StatusOf(tracked, status, b)
               /\ Len(last'.calls) <= 1
               /\ last'.calls # <<>> =>
                      /\ a \in DOMAIN tracked
                      /\ last'.calls[1].exe = "qdel"
                      /\ last'.calls[1].args = <<tracked[a]>>]_vars

\* a cancel succeeded while another target was tracked with a snapshot entry
C18_Witness ==
    /\ last.op = "cancel"
    /\ last.exc = NoExc
    /\ last.target \notin DOMAIN tracked
    /\ \E b \in DOMAIN tracked : tracked[b] \in DOMAIN status

\* the step is a successful submit of a target that was tracked already
Resubmitted ==
    /\ last'.op = "submit"
    /\ last'.exc = NoExc
    /\ last'.target \in DOMAIN tracked

\* C19: a successful submit of a tracked target puts the new job id in the
\* place of the old one, starts no qdel, and leaves the snapshot entry of the
\* old job id as it was; a later cancel or forget_job of a target calls qdel
\* for, and removes from the snapshot, the job id the tracker holds for it
\* and no other; status reads the entry of that job id.
C19_Resubmission ==
    /\ [][Resubmitted =>
              LET name == last'.target
                  old == tracked[name]
                  new == tracked'[name]
              IN  /\ DOMAIN tracked' = DOMAIN tracked
                  /\ new # old
                  /\ new = SelectSeq(last'.stdout, LAMBDA c : c \notin Whitespace)
                  /\ \A i \in 1..Len(last'.calls) : last'.calls[i].exe = "qsub"
                  /\ (old \in DOMAIN status') = (old \in DOMAIN status)
                  /\ old \in DOMAIN status => status'[old] = status[old]
                  /\ StatusOf(tracked', status', name).value = status'[new]]_vars
    /\ [][(last'.op \in {"cancel", "forget_job"} /\ last'.target \in DOMAIN tracked) =>
              LET job_id == tracked[last'.target]
              IN  /\ \A i \in 1..Len(last'.calls) : last'.calls[i].args = <<job_id>>
                  /\ DOMAIN status' \in {DOMAIN status, DOMAIN status \ {job_id}}
                  /\ \A j \in DOMAIN status' : status'[j] = status[j]]_vars

\* a target was submitted again: the file still holds its old job id (it
\* was tracked at the last close()), the tracker holds the new one, and the
\* snapshot holds both
C19_Witness ==
    /\ last.op = "submit"
    /\ last.exc = NoExc
    /\ last.target \in DOMAIN Load(file)
    /\ Load(file)[last.target] # tracked[last.target]
    /\ Load(file)[last.target] \in DOMAIN status
    /\ tracked[last.target] \in DOMAIN status

\* C20: a successful submit leaves the job id of its target in the snapshot;
\* within one backend, a tracker entry whose job id is in the snapshot keeps
\* it there as long as the entry stands; and cancel (with a successful qdel)
\* and forget_job of such a target raise nothing.  So every target whose
\* entry a submit of this backend wrote has its job id in the snapshot.
C20_SubmittedStayListed ==
    [][/\ (last'.op = "submit" /\ last'.exc = NoExc) =>
              tracked'[last'.target] \in DOMAIN status'
       /\ last'.op # "__init__" =>
              \A n \in DOMAIN tracked \cap DOMAIN tracked' :
                  (tracked'[n] = tracked[n] /\ tracked[n] \in DOMAIN status)
                      => tracked'[n] \in DOMAIN status'
       /\ (/\ last'.op \in {"cancel", "forget_job"}
           /\ last'.target \in DOMAIN tracked
           /\ tracked[last'.target] \in DOMAIN status
           /\ last'.op = "cancel" => ~QdelFailed(last'.calls)) =>
              /\ last'.exc = NoExc
              /\ last'.target \notin DOMAIN tracked'
              /\ tracked[last'.target] \notin DOMAIN status']_vars

\* forget_job succeeded for a target that the first backend submitted (no
\* close() has written the file yet), another target being tracked still
C20_Witness ==
    /\ last.op = "forget_job"
    /\ last.exc = NoExc
    /\ file.kind # "json"
    /\ DOMAIN tracked # {}
    /\ Values(tracked) \subseteq DOMAIN status

\* the texts between the separators c of s: s.split(c)
RECURSIVE SplitOn(_, _)
SplitOn(s, c) ==
    IF \A i \in 1..Len(s) : s[i] # c THEN <<s>>
    ELSE LET k == CHOOSE i \in 1..Len(s) :
                      s[i] = c /\ \A j \in 1..(i - 1) : s[j] # c
         IN  <<SubSeq(s, 1, k - 1)>> \o SplitOn(SubSeq(s, k + 1, Len(s)), c)

\* C13: when submit(target, dependencies) starts qsub, the hold list it
\* passes is the job ids the tracker held for the dependencies when submit
\* was called, in the order of the dependencies and joined by commas; with
\* no dependencies, qsub gets no hold argument.
C13_HoldList ==
    [][(last'.op = "submit" /\ last'.calls # <<>>) =>
          LET args == last'.calls[1].args
              deps == last'.deps
          IN  /\ last'.calls[1].exe = "qsub"
              /\ IF deps = <<>>
                 THEN \A i \in 1..Len(args) : args[i] # <<"-hold_jid">>
                 ELSE /\ Len(args) = 3
                      /\ args[2] = <<"-hold_jid">>
                      /\ \A i \in 1..Len(deps) : deps[i] \in DOMAIN tracked
                      /\ SplitOn(args[3], ",")
                             = [i \in 1..Len(deps) |-> tracked[deps[i]]]
                      /\ \A i \in 1..Len(SplitOn(args[3], ",")) :
                             SplitOn(args[3], ",")[i] \in Values(tracked)]_vars

\* qsub was started for a target with two dependencies, the one given first
\* holding the greater job id
C13_Witness ==
    /\ last.op = "submit"
    /\ last.calls # <<>>
    /\ Len(last.deps) = 2
    /\ Len(last.calls[1].args) = 3
    /\ last.calls[1].args[3] = <<"2", ",", "1">>

\* the characters of a text
Chars(s) == { s[i] : i \in 1..Len(s) }

\* C14: parsing a listing gives one entry per listed job id, classified from
\* the code of the id's last listing: UNKNOWN if the code has a deletion or
\* error marker (d, E), whatever else it has; else RUNNING if it has a
\* running, transferring or suspended marker (r, t, s); else SUBMITTED.
C14_Classification ==
    (last.op = "_parse_qstat_output" /\ last.exc = NoExc) =>
        LET jobs == last.stdout.jobs
            lastOf(id) == CHOOSE k \in 1..Len(jobs) :
                              /\ jobs[k].JB_job_number = id
                              /\ \A j \in (k + 1)..Len(jobs) :
                                     jobs[j].JB_job_number # id
        IN  /\ DOMAIN status = { jobs[i].JB_job_number : i \in 1..Len(jobs) }
            /\ \A id \in DOMAIN status :
                   LET marks == Chars(jobs[lastOf(id)].state)
                   IN  status[id] =
                           IF marks \cap {"d", "E"} # {} THEN UNKNOWN
                           ELSE IF marks \cap {"r", "t", "s"} # {} THEN RUNNING
                           ELSE SUBMITTED

\* a job id listed twice, as running and then as running in deletion, was
\* parsed
C14_Witness ==
    /\ last.op = "_parse_qstat_output"
    /\ last.exc = NoExc
    /\ Len(last.stdout.jobs) = 2
    /\ last.stdout.jobs[1].JB_job_number = last.stdout.jobs[2].JB_job_number
    /\ last.stdout.jobs[1].state = <<"r">>
    /\ last.stdout.jobs[2].state = <<"d", "r">>
    /\ status = DictSet(EmptyDict, last.stdout.jobs[1].JB_job_number, UNKNOWN)

\* the number a text of decimal digits denotes
DigitValue ==
    "0" :> 0 @@ "1" :> 1 @@ "2" :> 2 @@ "3" :> 3 @@ "4" :> 4 @@
    "5" :> 5 @@ "6" :> 6 @@ "7" :> 7 @@ "8" :> 8 @@ "9" :> 9

RECURSIVE Decimal(_, _)
Decimal(s, acc) ==
    IF s = <<>> THEN acc
    ELSE Decimal(Tail(s), 10 * acc + DigitValue[Head(s)])

\* s is digits followed by a unit suffix that has no digit; k is the number
\* of its digits
MemoryForm(s, k) ==
    /\ k \in 1..Len(s)
    /\ \A i \in 1..k : s[i] \in DOMAIN DigitValue
    /\ \A i \in (k + 1)..Len(s) : s[i] \notin DOMAIN DigitValue

\* the positions of the options whose key SGE_OPTIONS does not have
UnknownAt(options) ==
    { i \in 1..Len(options) :
        options[i][1] \notin {"cores", "memory", "walltime", "queue", "account"} }

\* C15: for a target with cores = c and memory = <n><unit> (and no unknown
\* option), whichever of the two options comes first, the script has one
\* memory directive, and its value is the decimal text of floor(n / c)
\* followed by the unit.
C15_MemoryPerCore ==
    (last.op = "_compile_script" /\ UnknownAt(last.target.options) = {}) =>
        LET memory == GetOption(last.target.options, "memory").s
            c == GetOption(last.target.options, "cores").n
        IN  \A k \in 1..Len(memory) :
                MemoryForm(memory, k) =>
                    LET n == Decimal(SubSeq(memory, 1, k), 0)
                        unit == SubSeq(memory, k + 1, Len(memory))
                        at == { i \in 1..Len(last.ret) :
                                  last.ret[i].lit = "#$ -l h_vmem=" }
                    IN  /\ last.exc = NoExc
                        /\ Cardinality(at) = 1
                        /\ \A i \in at :
                               LET value == last.ret[i].arg
                                   q == SubSeq(value, 1, Len(value) - Len(unit))
                               IN  /\ Len(value) > Len(unit)
                                   /\ SubSeq(value, Len(q) + 1, Len(value)) = unit
                                   /\ \A j \in 1..Len(q) : q[j] \in DOMAIN DigitValue
                                   /\ Len(q) > 1 => q[1] # "0"
                                   /\ c * Decimal(q, 0) <= n
                                   /\ n < c * (Decimal(q, 0) + 1)

\* memory "10g" given before cores 3 compiled to the directive 3g
C15_Witness ==
    /\ last.op = "_compile_script"
    /\ last.exc = NoExc
    /\ last.target.options = << <<"memory", StrVal(<<"1", "0", "g">>)>>,
                                <<"cores", IntVal(3)>> >>
    /\ \E i \in 1..Len(last.ret) :
           last.ret[i] = Line("#$ -l h_vmem=", <<"3", "g">>)

C17_InvalidMemory ==
    (last.op = "_compile_script" /\ UnknownAt(last.target.options) = {}) =>
        LET memory == GetOption(last.target.options, "memory").s
        IN  (\A k \in 1..Len(memory) : ~MemoryForm(memory, k))
                => last.exc = "InvalidOptionError"

====
